---- MODULE Spec2Model ----
(***************************************************************************)
(* Model of polaris/ocean/tasks/cosine_bell/analysis.py: the Analysis step *)
(* of the cosine bell test case.  Analysis.run loops over the resolutions, *)
(* calls Analysis.rmse for each, fits log10(RMSE) against log10(nCells),   *)
(* writes convergence.png and checks the order of convergence against the  *)
(* configured thresholds.                                                  *)
(*                                                                         *)
(* Number representation (TLA+ has integers only):                         *)
(*   - angles are in units of 1e-8 radian;                                 *)
(*   - RMSE values are in units of 1e-5;                                   *)
(*   - log10 values are in units of 1e-2 (log10(2) = 0.30, log10(5) =      *)
(*     0.70), exact and additive on the numbers 2^a * 5^b the model uses;  *)
(*   - the fitted slope and the order of convergence are exact rationals   *)
(*     [num, den]; a non-finite float is kind "nan" or "inf";              *)
(*   - thresholds are in units of 1e-1.                                    *)
(* The local variables of rmse are Python names: the set `bound` holds the *)
(* names that have been assigned, and reading a name outside it raises     *)
(* UnboundLocalError.                                                      *)
(***************************************************************************)
EXTENDS Integers, Sequences, FiniteSets, TLC

\* largest number of resolutions of a run
MaxRes == 3

VARIABLES
    resolutions,    \* self.resolutions
    icosahedral,    \* self.icosahedral
    pc,             \* position in run / rmse
    i,              \* 1-based position of the for loop of run
    xdata,          \* run: list of cell counts
    ydata,          \* run: list of RMSE values (1e-5)
    evaluated,      \* history: the resolutions rmse was called for, in order
    lonCent,        \* rmse: config lon_center (1e-8 rad)
    convergence_eval_time,  \* rmse: config convergence_eval_time (days)
    xtime,          \* rmse: ds.xtime, a sequence of timestamps
    bound,          \* rmse: names of the locals assigned so far
    tt,             \* rmse: str(ds.xtime[j].values), a sequence of characters
    DY, HR, MN,     \* rmse: parsed day - 1, hour, minute
    sliceTime,      \* rmse: matched time index (0-based)
    t,              \* rmse: elapsed time
    newLon,         \* rmse: advected centre longitude (1e-8 rad)
    p0,             \* run: p[0] of the fit, the slope
    conv,           \* run: order of convergence
    conv_thresh,    \* run: selected minimum threshold (1e-1)
    conv_max,       \* run: selected maximum threshold (1e-1)
    images,         \* number of times convergence.png was written
    warned,         \* number of warnings.warn calls of run
    error           \* "" or the name of the exception that ended the run

vars == <<resolutions, icosahedral, pc, i, xdata, ydata, evaluated, lonCent,
          convergence_eval_time, xtime, bound, tt, DY, HR, MN, sliceTime, t,
          newLon, p0, conv, conv_thresh, conv_max, images, warned, error>>

rmseLocals == <<lonCent, convergence_eval_time, xtime, bound, tt, DY, HR, MN,
                sliceTime, t, newLon>>
runTail == <<p0, conv, conv_thresh, conv_max, images, warned>>

----------------------------------------------------------------------------
\* Inputs

\* a timestamp of the forward output: month, day, hour, minute (year 0001,
\* second 00)
Stamp(mo, dd, hh, mi) == [mo |-> mo, dd |-> dd, hh |-> hh, mi |-> mi]

\* the time coordinates of the forward outputs the model draws from
Xtimes ==
    { <<>>,
      <<Stamp(1, 1, 0, 0), Stamp(1, 2, 0, 0)>>,
      <<Stamp(1, 1, 0, 0), Stamp(1, 2, 0, 0), Stamp(1, 2, 12, 30)>>,
      <<Stamp(1, 1, 0, 0), Stamp(1, 2, 6, 30)>>,
      <<Stamp(1, 1, 0, 0), Stamp(1, 31, 0, 0), Stamp(2, 1, 0, 0)>> }

\* configured evaluation times, in days
EvalTimes == {1, 31}

\* configured lon_center values, 1e-8 rad: -7.0, 3.14159265 and 6.0
LonCenters == {-700000000, 314159265, 600000000}

\* cell counts of the meshes
CellCounts == {100, 400, 1600}

\* RMSE values, 1e-5: 0, 0.00625, 0.025, 0.1
RmseValues == {0, 625, 2500, 10000}

\* the [cosine_bell] sections of the configuration, thresholds in 1e-1
Sections ==
    { [icos_conv_thresh |-> 18, icos_conv_max |-> 22,
       qu_conv_thresh |-> 20, qu_conv_max |-> 20],
      [icos_conv_thresh |-> 20, icos_conv_max |-> 40,
       qu_conv_thresh |-> 18, qu_conv_max |-> 22],
      [icos_conv_thresh |-> 22, icos_conv_max |-> 18,
       qu_conv_thresh |-> 30, qu_conv_max |-> 15] }

\* the resolutions of a run with n meshes
ResolutionList(n) == [k \in 1..n |-> 60 * k]

NoStamp == <<>>
NoConv == [kind |-> "none", num |-> 0, den |-> 1]
NoSlope == [kind |-> "none", num |-> 0, den |-> 1]

----------------------------------------------------------------------------
\* Timestamp text and its parsing

DigitChars == <<"0", "1", "2", "3", "4", "5", "6", "7", "8", "9">>

TwoDigits(n) == <<DigitChars[(n \div 10) + 1], DigitChars[(n % 10) + 1]>>

\* str(ds.xtime[j].values): the bytes value b'0001-MM-DD_hh:mm:00' printed
\* with its b'...' wrapper
XtimeStr(ts) ==
    <<"b", "'", "0", "0", "0", "1", "-">> \o TwoDigits(ts.mo) \o <<"-">>
    \o TwoDigits(ts.dd) \o <<"_">> \o TwoDigits(ts.hh) \o <<":">>
    \o TwoDigits(ts.mi) \o <<":", "0", "0", "'">>

\* s[a:b] of Python, 0-based and half-open
Slice(s, a, b) == SubSeq(s, a + 1, b)

DigitVal(c) == CHOOSE n \in 0..9 : DigitChars[n + 1] = c

\* float(s) of a two-digit text
ParseFloat(s) == 10 * DigitVal(s[1]) + DigitVal(s[2])

----------------------------------------------------------------------------
\* Analysis.rmse

SecondsPerDay == 86400
SecondsPerHour == 3600
\* 2.0 * 3.14159265, 1e-8 rad
TwoPiApprox == 628318530
\* 2.0 * np.pi rounded to 1e-8 rad
TwoPi == 628318531

\* the locals of the time scan before the loop: nothing is assigned
ScanStart == [bound |-> {}, tt |-> NoStamp, DY |-> 0, sliceTime |-> 0]

\* the for loop over range(len(ds.xtime)) from index j on; `break` at the
\* first j with DY == convergence_eval_time
RECURSIVE ScanFrom(_, _, _, _)
ScanFrom(xt, ev, j, st) ==
    IF j >= Len(xt) THEN st
    ELSE LET s  == XtimeStr(xt[j + 1])
             dy == ParseFloat(Slice(s, 10, 12)) - 1
         IN  IF dy = ev
             THEN [bound |-> st.bound \cup {"tt", "DY", "sliceTime"},
                   tt |-> s, DY |-> dy, sliceTime |-> j]
             ELSE ScanFrom(xt, ev, j + 1,
                           [st EXCEPT !.bound = @ \cup {"tt", "DY"},
                                      !.tt = s, !.DY = dy])

ScanXtime(xt, ev) == ScanFrom(xt, ev, 0, ScanStart)

\* t = 86400.0 * DY + HR * 3600. + MN
ElapsedT(dy, hr, mn) == SecondsPerDay * dy + hr * SecondsPerHour + mn

\* floor(a * b / d) for a, b >= 0 and d > 0, by long division in base 100
\* (the product a * b itself does not fit 32-bit integers)
RECURSIVE MulDivQR(_, _, _)
MulDivQR(a, b, d) ==
    IF a = 0 THEN [q |-> 0, r |-> 0]
    ELSE LET prev == MulDivQR(a \div 100, b, d)
             cur  == prev.r * 100 + (a % 100) * b
         IN  [q |-> prev.q * 100 + (cur \div d), r |-> cur % d]

MulDiv(a, b, d) == MulDivQR(a, b, d).q

\* distTrav = 2.0 * 3.14159265 * R / (86400.0 * convergence_eval_time) * t
\* distRad = distTrav / R
DistRad(ev, tm) == MulDiv(TwoPiApprox, tm, SecondsPerDay * ev)

\* if newLon > 2.0 * np.pi: newLon -= 2.0 * np.pi
WrapLon(lon) == IF lon > TwoPi THEN lon - TwoPi ELSE lon

\* newLon = lonCent + distRad, then the wrap
NewLon(lonC, ev, tm) == WrapLon(lonC + DistRad(ev, tm))

\* the locals of rmse when no call is active
ClearLocals ==
    /\ lonCent' = 0
    /\ convergence_eval_time' = 0
    /\ xtime' = <<>>
    /\ bound' = {}
    /\ tt' = NoStamp
    /\ DY' = 0
    /\ HR' = 0
    /\ MN' = 0
    /\ sliceTime' = 0
    /\ t' = 0
    /\ newLon' = 0

\* an exception leaves run: nothing else of the run is executed
Raise(e) ==
    /\ error' = e
    /\ pc' = "raised"

\* run, lines 87-89, and rmse, lines 142-153: the loop takes the next
\* resolution and calls rmse, which reads the configuration and opens the
\* three datasets
CallRmse ==
    /\ pc = "loop"
    /\ i <= Len(resolutions)
    /\ \E lon \in LonCenters, ev \in EvalTimes, xt \in Xtimes :
          /\ lonCent' = lon
          /\ convergence_eval_time' = ev
          /\ xtime' = xt
    /\ evaluated' = Append(evaluated, resolutions[i])
    /\ pc' = "scan"
    /\ UNCHANGED <<resolutions, icosahedral, i, xdata, ydata, bound, tt, DY,
                   HR, MN, sliceTime, t, newLon, runTail, error>>

\* rmse, lines 150-153: xr.open_dataset raises for a missing or malformed
\* file
OpenFails ==
    /\ pc = "loop"
    /\ i <= Len(resolutions)
    /\ evaluated' = Append(evaluated, resolutions[i])
    /\ Raise("FileNotFoundError")
    /\ UNCHANGED <<resolutions, icosahedral, i, xdata, ydata, rmseLocals,
                   runTail>>

\* rmse, lines 154-160: the scan of the time coordinate
ScanTime ==
    /\ pc = "scan"
    /\ LET st == ScanXtime(xtime, convergence_eval_time)
       IN  /\ bound' = st.bound
           /\ tt' = st.tt
           /\ DY' = st.DY
           /\ sliceTime' = st.sliceTime
    /\ pc' = "elapsed"
    /\ UNCHANGED <<resolutions, icosahedral, i, xdata, ydata, evaluated,
                   lonCent, convergence_eval_time, xtime, HR, MN, t, newLon,
                   runTail, error>>

\* rmse, lines 161-163: hour, minute and elapsed time of tt; tt and DY are
\* unassigned when the loop body never ran
Elapsed ==
    /\ pc = "elapsed"
    /\ IF "tt" \in bound
       THEN LET hr == ParseFloat(Slice(tt, 13, 15))
                mn == ParseFloat(Slice(tt, 16, 18))
            IN  /\ HR' = hr
                /\ MN' = mn
                /\ t' = ElapsedT(DY, hr, mn)
                /\ bound' = bound \cup {"HR", "MN", "t"}
                /\ pc' = "advect"
                /\ UNCHANGED error
       ELSE /\ Raise("UnboundLocalError")
            /\ UNCHANGED <<HR, MN, t, bound>>
    /\ UNCHANGED <<resolutions, icosahedral, i, xdata, ydata, evaluated,
                   lonCent, convergence_eval_time, xtime, tt, DY, sliceTime,
                   newLon, runTail>>

\* rmse, lines 164-183: the new centre of the blob and the analytic tracer
Advect ==
    /\ pc = "advect"
    /\ newLon' = NewLon(lonCent, convergence_eval_time, t)
    /\ bound' = bound \cup {"newLon", "tracer"}
    /\ pc' = "tracerF"
    /\ UNCHANGED <<resolutions, icosahedral, i, xdata, ydata, evaluated,
                   lonCent, convergence_eval_time, xtime, tt, DY, HR, MN,
                   sliceTime, t, runTail, error>>

\* the read of the forward tracer when a resolution without a matched time
\* index is skipped and the loop goes on with the next resolution
ReadForwardSkipping ==
    /\ pc = "tracerF"
    /\ IF "sliceTime" \in bound
       THEN /\ \E rmseValue \in RmseValues, nCells \in CellCounts :
                  /\ xdata' = Append(xdata, nCells)
                  /\ ydata' = Append(ydata, rmseValue)
       ELSE UNCHANGED <<xdata, ydata>>
    /\ i' = i + 1
    /\ pc' = "loop"
    /\ ClearLocals
    /\ UNCHANGED <<resolutions, icosahedral, evaluated, runTail, error>>

\* rmse, lines 185-189, and run, lines 90-91: the forward tracer is read at
\* sliceTime, the RMSE and the cell count are returned and appended; the
\* values depend on the tracer fields and the mesh, which are inputs
ReadForward ==
    /\ pc = "tracerF"
    /\ IF "sliceTime" \in bound
       THEN /\ \E rmseValue \in RmseValues, nCells \in CellCounts :
                  /\ xdata' = Append(xdata, nCells)
                  /\ ydata' = Append(ydata, rmseValue)
            /\ i' = i + 1
            /\ pc' = "loop"
            /\ ClearLocals
            /\ UNCHANGED error
       ELSE /\ Raise("UnboundLocalError")
            /\ UNCHANGED <<i, xdata, ydata, rmseLocals>>
    /\ UNCHANGED <<resolutions, icosahedral, evaluated, runTail>>

----------------------------------------------------------------------------
\* Analysis.run

\* the offset of log10 for the RMSE unit: log10(1e-5), 1e-2
LogRmseUnit == 500

\* np.log10 on the numbers 2^a * 5^b, 1e-2
RECURSIVE Log10(_)
Log10(v) ==
    IF v = 1 THEN 0
    ELSE IF v % 10 = 0 THEN 100 + Log10(v \div 10)
    ELSE IF v % 2 = 0 THEN 30 + Log10(v \div 2)
    ELSE 70 + Log10(v \div 5)

\* np.log10(xdata) and np.log10(ydata) for positive values
LogX(xs) == [k \in 1..Len(xs) |-> Log10(xs[k])]
LogY(ys) == [k \in 1..Len(ys) |-> Log10(ys[k]) - LogRmseUnit]

RECURSIVE SumSeq(_)
SumSeq(s) == IF Len(s) = 0 THEN 0 ELSE Head(s) + SumSeq(Tail(s))

Dot(a, b) == SumSeq([k \in 1..Len(a) |-> a[k] * b[k]])

Abs(n) == IF n < 0 THEN -n ELSE n

\* p[0] of np.polyfit(x, y, 1), as the fraction num / den with den > 0: the
\* least-squares slope; when all x are equal (also for a single point) the
\* system has rank 1 and lstsq returns the minimum-norm solution of the
\* column-scaled system, whose slope is mean(y) / (2 * x[0])
PolyfitSlope(x, y) ==
    LET n   == Len(x)
        den == n * Dot(x, x) - SumSeq(x) * SumSeq(x)
        num == n * Dot(x, y) - SumSeq(x) * SumSeq(y)
    IN  IF den # 0 THEN [kind |-> "finite", num |-> num, den |-> den]
        ELSE [kind |-> "finite", num |-> SumSeq(y), den |-> 2 * SumSeq(x)]

\* the order without the factor 2.0
ConvOfSingle(slope) == [kind |-> "finite", num |-> Abs(slope.num),
                        den |-> slope.den]

\* conv = abs(p[0]) * 2.0
ConvOf(slope) == [kind |-> "finite", num |-> Abs(slope.num) * 2,
                  den |-> slope.den]

\* conv <= thr and conv >= thr in place of the strict comparisons
ConvLe(c, thr) == c.kind = "finite" /\ 10 * c.num <= thr * c.den
ConvGe(c, thr) == \/ c.kind = "inf"
                  \/ c.kind = "finite" /\ 10 * c.num >= thr * c.den

\* conv < thr and conv > thr of floats, thr in 1e-1; every comparison with
\* nan is False
ConvLt(c, thr) == c.kind = "finite" /\ 10 * c.num < thr * c.den
ConvGt(c, thr) == \/ c.kind = "inf"
                  \/ c.kind = "finite" /\ 10 * c.num > thr * c.den

\* lines 109-114: the threshold pair of the mesh family
SelectThresh(icos, section) ==
    IF icos THEN section.icos_conv_thresh ELSE section.qu_conv_thresh
SelectMax(icos, section) ==
    IF icos THEN section.icos_conv_max ELSE section.qu_conv_max

Init ==
    /\ resolutions \in {ResolutionList(n) : n \in 0..MaxRes}
    /\ icosahedral \in BOOLEAN
    /\ pc = "loop"
    /\ i = 1
    /\ xdata = <<>>
    /\ ydata = <<>>
    /\ evaluated = <<>>
    /\ lonCent = 0
    /\ convergence_eval_time = 0
    /\ xtime = <<>>
    /\ bound = {}
    /\ tt = NoStamp
    /\ DY = 0
    /\ HR = 0
    /\ MN = 0
    /\ sliceTime = 0
    /\ t = 0
    /\ newLon = 0
    /\ p0 = NoSlope
    /\ conv = NoConv
    /\ conv_thresh = 0
    /\ conv_max = 0
    /\ images = 0
    /\ warned = 0
    /\ error = ""

\* lines 87 and 92-93: the loop is exhausted, the lists become arrays
EndLoop ==
    /\ pc = "loop"
    /\ i > Len(resolutions)
    /\ pc' = "fit"
    /\ UNCHANGED <<resolutions, icosahedral, i, xdata, ydata, evaluated,
                   rmseLocals, runTail, error>>

\* lines 95-98: the log-log fit.  polyfit raises TypeError for an empty x;
\* log10(0) is -inf, and with a non-finite y the fit either fails in lstsq
\* or gives a non-finite slope
Fit ==
    /\ pc = "fit"
    /\ IF Len(xdata) = 0
       THEN /\ Raise("TypeError")
            /\ UNCHANGED <<p0, conv>>
       ELSE IF \E k \in 1..Len(ydata) : ydata[k] = 0
       THEN \/ /\ Raise("LinAlgError")
               /\ UNCHANGED <<p0, conv>>
            \/ /\ \E kind \in {"nan", "inf"} :
                     /\ p0' = [kind |-> kind, num |-> 0, den |-> 1]
                     /\ conv' = [kind |-> kind, num |-> 0, den |-> 1]
               /\ pc' = "plot"
               /\ UNCHANGED error
       ELSE /\ p0' = PolyfitSlope(LogX(xdata), LogY(ydata))
            /\ conv' = ConvOf(p0')
            /\ pc' = "plot"
            /\ UNCHANGED error
    /\ UNCHANGED <<resolutions, icosahedral, i, xdata, ydata, evaluated,
                   rmseLocals, conv_thresh, conv_max, images, warned>>

\* the plot step when the figure is drawn but not saved
PlotUnsaved ==
    /\ pc = "plot"
    /\ pc' = "thresholds"
    /\ UNCHANGED <<resolutions, icosahedral, i, xdata, ydata, evaluated,
                   rmseLocals, p0, conv, conv_thresh, conv_max, images,
                   warned, error>>

\* lines 100-106: the plot is drawn and saved as convergence.png
Plot ==
    /\ pc = "plot"
    /\ images' = images + 1
    /\ pc' = "thresholds"
    /\ UNCHANGED <<resolutions, icosahedral, i, xdata, ydata, evaluated,
                   rmseLocals, p0, conv, conv_thresh, conv_max, warned, error>>

\* lines 108-114: the thresholds of the mesh family are read
ReadThresholds ==
    /\ pc = "thresholds"
    /\ \E section \in Sections :
          /\ conv_thresh' = SelectThresh(icosahedral, section)
          /\ conv_max' = SelectMax(icosahedral, section)
    /\ pc' = "check"
    /\ UNCHANGED <<resolutions, icosahedral, i, xdata, ydata, evaluated,
                   rmseLocals, p0, conv, images, warned, error>>

\* lines 116-122: ValueError below the minimum, a warning above the maximum
CheckThresholds ==
    /\ pc = "check"
    /\ IF ConvLt(conv, conv_thresh)
       THEN /\ Raise("ValueError")
            /\ UNCHANGED warned
       ELSE /\ warned' = IF ConvGt(conv, conv_max) THEN warned + 1 ELSE warned
            /\ pc' = "done"
            /\ UNCHANGED error
    /\ UNCHANGED <<resolutions, icosahedral, i, xdata, ydata, evaluated,
                   rmseLocals, p0, conv, conv_thresh, conv_max, images>>

Next ==
    \/ CallRmse
    \/ OpenFails
    \/ ScanTime
    \/ Elapsed
    \/ Advect
    \/ ReadForward
    \/ EndLoop
    \/ Fit
    \/ Plot
    \/ ReadThresholds
    \/ CheckThresholds

Spec == Init /\ [][Next]_vars

----------------------------------------------------------------------------
\* Properties

\* the run went through the threshold check
Checked == pc = "done" \/ error = "ValueError"

\* the fit of the run succeeded
Fitted == pc \in {"plot", "thresholds", "check", "done"} \/ error = "ValueError"

\* the order of convergence against a threshold (1e-1), as numbers
OrderBelow(c, thr) == c.kind = "finite" /\ 10 * c.num < thr * c.den
OrderEqual(c, thr) == c.kind = "finite" /\ 10 * c.num = thr * c.den
OrderAbove(c, thr) == \/ c.kind = "inf"
                      \/ c.kind = "finite" /\ 10 * c.num > thr * c.den

\* C1: a run that reaches the threshold check raises if and only if the
\* order of convergence is strictly below the selected minimum threshold; an
\* order equal to the minimum passes.
C1_FailsIffBelowMin ==
    Checked => ((pc = "raised") <=> OrderBelow(conv, conv_thresh))

\* C1 witness: a run whose order equals the minimum threshold returned.
C1_Witness == pc = "done" /\ OrderEqual(conv, conv_thresh)

\* C2 as stated: whenever the order is above the maximum threshold a warning
\* is emitted and the run returns normally, for every threshold pair; an
\* order equal to the maximum gives no warning.
C2_WarnAboveMaxAlways ==
    Checked =>
        /\ OrderAbove(conv, conv_max) => (warned = 1 /\ pc = "done")
        /\ OrderEqual(conv, conv_max) => warned = 0

\* C2 amended: whenever the order is above the maximum threshold and not
\* below the minimum threshold, a warning is emitted and the run returns
\* normally; an order equal to the maximum gives no warning.
C2_WarnAboveMax ==
    Checked =>
        /\ (OrderAbove(conv, conv_max) /\ ~OrderBelow(conv, conv_thresh))
               => (warned = 1 /\ pc = "done")
        /\ OrderEqual(conv, conv_max) => warned = 0

\* C2 witness: a run above the maximum warned and returned.
C2_Witness ==
    pc = "done" /\ warned = 1 /\ conv.kind = "finite"
    /\ OrderAbove(conv, conv_max)

\* days of the year before a month (year 0001)
DaysBeforeMonth == <<0, 31, 59>>

\* the days elapsed since the start of the run, 0001-01-01_00:00:00
ElapsedDays(ts) == DaysBeforeMonth[ts.mo] + ts.dd - 1

\* the 1-based positions of the time steps whose elapsed days equal ev
Matches(xt, ev) == {k \in 1..Len(xt) : ElapsedDays(xt[k]) = ev}

\* a call of rmse has passed the scan of the time coordinate
Scanned == convergence_eval_time # 0 /\ pc # "scan"

\* C3: when no time step matches the evaluation time, rmse fails with an
\* explicit time-match error and computes neither the elapsed time nor the
\* patch centre.
C3_NoMatchFailsExplicitly ==
    (Scanned /\ Matches(xtime, convergence_eval_time) = {}) =>
        /\ pc \in {"elapsed", "raised"}
        /\ pc = "raised" => error = "TimeMatchError"
        /\ "t" \notin bound
        /\ "newLon" \notin bound

\* C4: for a matched time step the wrapped longitude of the patch centre lies
\* in [0, 2*pi).
C4_NewLonInRange ==
    ("newLon" \in bound /\ "sliceTime" \in bound) =>
        (0 <= newLon /\ newLon < TwoPi)

\* the orders of the power laws the inputs can follow
Orders == -4..4

\* RMSE_k = C * N_k^(-p/2) for every k, in the log domain
PowerLaw(xs, ys, p) ==
    /\ \A k \in 1..Len(ys) : ys[k] > 0
    /\ \A k \in 1..Len(xs) :
          2 * (Log10(ys[k]) - Log10(ys[1]))
              = (0 - p) * (Log10(xs[k]) - Log10(xs[1]))

TwoDistinct(xs) == \E a, b \in 1..Len(xs) : xs[a] # xs[b]

ExampleCells == <<100, 400, 1600>>
ExampleRmse == <<10000, 2500, 625>>

\* the end-to-end example: order 2, and no failure and no warning under the
\* thresholds (1.8, 2.2)
ExampleHolds ==
    (Fitted /\ xdata = ExampleCells /\ ydata = ExampleRmse) =>
        /\ conv.kind = "finite" /\ conv.num = 2 * conv.den
        /\ (conv_thresh = 18 /\ conv_max = 22) => (error = "" /\ warned = 0)

\* C5 as stated: for RMSE values that follow C * N^(-p/2) exactly on at least
\* two distinct cell counts the slope is -p/2 and the order is p; the example
\* gives order 2 and passes silently.
C5_OrderIsP ==
    /\ (Fitted /\ TwoDistinct(xdata)) =>
          \A p \in Orders : PowerLaw(xdata, ydata, p) =>
              /\ 2 * p0.num = (0 - p) * p0.den
              /\ conv.num = p * conv.den
    /\ ExampleHolds

\* C5 amended: the slope is -p/2 and the order is the absolute value of p
\* (it is p when p >= 0); the example gives order 2 and passes silently.
C5_OrderIsAbsP ==
    /\ (Fitted /\ TwoDistinct(xdata)) =>
          \A p \in Orders : PowerLaw(xdata, ydata, p) =>
              /\ 2 * p0.num = (0 - p) * p0.den
              /\ conv.num = Abs(p) * conv.den
    /\ ExampleHolds

\* C5 witness: the example run returned under the thresholds (1.8, 2.2).
C5_Witness ==
    /\ pc = "done"
    /\ xdata = ExampleCells /\ ydata = ExampleRmse
    /\ conv_thresh = 18 /\ conv_max = 22

\* the state part of C6
AbortInv ==
    /\ Len(evaluated) <= Len(resolutions)
    /\ evaluated = SubSeq(resolutions, 1, Len(evaluated))
    /\ pc \in {"scan", "elapsed", "advect", "tracerF"} =>
          (Len(evaluated) = i /\ Len(xdata) = i - 1)
    /\ (pc = "raised" /\ i <= Len(resolutions)) =>
          /\ Len(evaluated) = i
          /\ p0 = NoSlope /\ conv = NoConv
          /\ images = 0 /\ conv_thresh = 0 /\ conv_max = 0 /\ warned = 0
    /\ pc \in {"fit", "plot", "thresholds", "check", "done"} =>
          /\ Len(xdata) = Len(resolutions)
          /\ Len(ydata) = Len(resolutions)
          /\ Len(evaluated) = Len(resolutions)

\* C6: the resolutions are evaluated in sequence order, and a failure of rmse
\* for a resolution ends the run there: no later resolution is evaluated,
\* nothing is fitted, written or checked, and the fit is only reached with a
\* result for every resolution.
C6_FailureAborts ==
    /\ []AbortInv
    /\ [][(pc = "raised") => UNCHANGED vars]_vars

\* C6 witness: rmse failed after a first resolution succeeded and before the
\* last one.
C6_Witness ==
    /\ pc = "raised" /\ error = "UnboundLocalError"
    /\ Len(xdata) >= 1 /\ i < Len(resolutions)

\* C7: at the fit the two sequences have equal length at least 2 and hold
\* strictly positive values only.
C7_FitWellDefined ==
    pc = "fit" =>
        /\ Len(xdata) = Len(ydata)
        /\ Len(xdata) >= 2
        /\ \A k \in 1..Len(xdata) : xdata[k] > 0
        /\ \A k \in 1..Len(ydata) : ydata[k] > 0

\* the first time step whose elapsed days equal ev
FirstMatch(xt, ev) ==
    CHOOSE k \in Matches(xt, ev) : \A m \in Matches(xt, ev) : k <= m

\* C8: when a time step matches, the forward tracer is read at the first
\* index whose elapsed days equal the evaluation time, and day, hour and
\* minute are those of that time step.
C8_FirstMatchUsed ==
    (pc = "tracerF" /\ Matches(xtime, convergence_eval_time) # {}) =>
        LET k == FirstMatch(xtime, convergence_eval_time)
        IN  /\ "sliceTime" \in bound
            /\ sliceTime = k - 1
            /\ DY = ElapsedDays(xtime[k])
            /\ HR = xtime[k].hh
            /\ MN = xtime[k].mi

\* C9: for a matched time step the elapsed time is in seconds,
\* t = 86400 * DY + 3600 * HR + 60 * MN.
C9_ElapsedSeconds ==
    ("t" \in bound /\ "sliceTime" \in bound) =>
        t = 86400 * DY + 3600 * HR + 60 * MN

\* the state part of C10
ImageInv ==
    /\ images \in {0, 1}
    /\ pc \in {"thresholds", "check", "done"} => images = 1
    /\ error = "ValueError" => images = 1
    /\ images = 0 => (conv_thresh = 0 /\ conv_max = 0 /\ warned = 0)

\* C10: convergence.png is written before the thresholds are read: a run
\* whose evaluations and fit succeed has written it exactly once, also when
\* the minimum threshold check then fails, and reading and checking the
\* thresholds does not change what was written.
C10_ImageBeforeThresholds ==
    /\ []ImageInv
    /\ [][(pc \in {"thresholds", "check"}) => (images' = images)]_vars

\* C10 witness: the run failed the minimum threshold with the image written.
C10_Witness == error = "ValueError" /\ images = 1

====
